---------------------------- MODULE Spec2Model ----------------------------
(***************************************************************************)
(* Model of the MSC therapy calculator (src/app.py): the planner           *)
(* calculate_msc_therapy and the growth-curve generator plot_growth_curve. *)
(*                                                                         *)
(* Units.  All quantities are integers:                                    *)
(*   - cell counts are in units of 1000 cells, so a flask's initial_cells  *)
(*     = surface * 5.0e4 is surface * 50 and max_cells = surface * 2.0e5   *)
(*     is surface * 200;                                                   *)
(*   - weight is a whole number of kg, as the slider of main() gives it;   *)
(*   - desired_dose is in twentieths of 1e6 cells/kg (dose 1.0 is 20), so  *)
(*     total_cells = desired_dose * weight * 1e6 is desired_dose * weight  *)
(*     * 50 units;                                                         *)
(*   - separator yields are in units of 1000 cells per mL;                 *)
(*   - pbsc_ml is in 1/PBSC_SCALE mL;                                      *)
(*   - the samples of the growth curve are in single cells, because the    *)
(*     curve can start at the literal 1 (one cell): plot_growth_curve      *)
(*     multiplies the cell counts it reads by CELLS_PER_UNIT;              *)
(*   - SAFETY_FACTOR = 1.2 is the fraction 6/5 and PLASMA_PERCENTAGE =     *)
(*     0.15 is 3/20.  For every integer x below 1e5, Python's              *)
(*     math.ceil(x * 1.2) equals ceil(6x/5) and math.ceil(x * 0.15) equals *)
(*     ceil(3x/20): the double nearest to 1.2 (0.15) lies below it, so the *)
(*     rounded product never exceeds an integer exact value.               *)
(*   - the double desired_dose * weight * 1e6 can differ from the exact    *)
(*     product by less than one cell.  That changes a comparison only      *)
(*     where a passage yield equals the exact target; for the vessels      *)
(*     modelled here and the inputs enumerated no such tie falls on an     *)
(*     inexact product, so the comparisons are those of exact integers.    *)
(***************************************************************************)
EXTENDS Integers, Sequences, FiniteSets, TLC

VARIABLES
    pc,                \* "ready", "calculated", "plotted": position in main()
    weight,            \* arguments of calculate_msc_therapy, as passed
    desired_dose,
    separator,
    flask_type,
    plasma_priming,
    found,             \* the local `found' when the search loop is left
    results,           \* the dict returned by calculate_msc_therapy
    curve              \* the three segments drawn by plot_growth_curve

vars == <<pc, weight, desired_dose, separator, flask_type, plasma_priming,
          found, results, curve>>

----------------------------------------------------------------------------
(* Bounds of the inputs enumerated.                                        *)
MinWeightInput == 28
MaxWeightInput == 122
MinDoseInput == 8
MaxDoseInput == 42

----------------------------------------------------------------------------
(* Program constants.                                                      *)
MIN_PASSAGE1_DAYS == 14
ADDITIONAL_PASSAGE_DAYS == 7
MAX_PASSAGES == 3
SAFETY_FACTOR_NUM == 6
SAFETY_FACTOR_DEN == 5
PLASMA_PERCENTAGE_NUM == 3
PLASMA_PERCENTAGE_DEN == 20
PBSC_SCALE == 120
MIN_COLLECTION_ML == 50
MIN_WEIGHT == 30
MAX_WEIGHT == 120
MIN_DOSE == 10
MAX_DOSE == 40
SEEDING_DENSITY == 50
CONFLUENT_DENSITY == 200
CELLS_PER_DOSE_UNIT == 50
CELLS_PER_UNIT == 1000
FIRST_PASSAGE_MEDIA_CHANGES == 4
LATER_PASSAGE_MEDIA_CHANGES == 2

FirstCandidate == 1

LastCandidate_One == FirstCandidate
LastCandidate == 200

SEPARATOR_YIELD ==
    [k \in {"Haemonetics", "Spectra Optia", "Default"} |->
        CASE k = "Haemonetics"   -> 1000
          [] k = "Spectra Optia" -> 2000
          [] OTHER               -> 1500]

Flask(surface, media) ==
    [surface |-> surface, media |-> media,
     initial_cells |-> surface * SEEDING_DENSITY,
     max_cells |-> surface * CONFLUENT_DENSITY]

FLASK_TYPES ==
    [k \in {"T25", "T75", "T175", "Default"} |->
        CASE k = "T25"  -> Flask(25, 5)
          [] k = "T175" -> Flask(175, 30)
          [] OTHER      -> Flask(75, 15)]

(* The keys passed: those of the tables and one the tables do not hold.    *)
FlaskKeys == {"T25", "T75", "T175", "Default", "standard-medium"}
SeparatorKeys == {"Haemonetics", "Spectra Optia", "Default", "Unlisted"}

----------------------------------------------------------------------------
(* Helpers.                                                                *)
Max(a, b) == IF a >= b THEN a ELSE b
Min(a, b) == IF a <= b THEN a ELSE b

Floor(num, den) == num \div den

Ceil(num, den) == -((-num) \div den)

safe_get(dictionary, key) ==
    IF key \in DOMAIN dictionary THEN dictionary[key] ELSE dictionary["Default"]

ClampWeight(w) == Max(MIN_WEIGHT, Min(w, MAX_WEIGHT))

ClampDose(d) == Max(MIN_DOSE, Min(d, MAX_DOSE))

TotalCells(w, d) == ClampDose(d) * ClampWeight(w) * CELLS_PER_DOSE_UNIT

(* try: total_cells / sep_yield, except: 50; then max(50, .)               *)
PbscMl(total_cells, sep_yield) ==
    LET raw == IF sep_yield = 0
               THEN MIN_COLLECTION_ML * PBSC_SCALE
               ELSE (total_cells * PBSC_SCALE) \div sep_yield
    IN  Max(MIN_COLLECTION_ML * PBSC_SCALE, raw)

TargetMet_Strict(yield, total_cells) == yield > total_cells
TargetMet(yield, total_cells) == yield >= total_cells

ReseedFlasks_NoSafety(prev_yield, initial_cells) ==
    Ceil(prev_yield, initial_cells)
ReseedFlasks(prev_yield, initial_cells) ==
    Ceil(prev_yield * SAFETY_FACTOR_NUM, initial_cells * SAFETY_FACTOR_DEN)

(* The locals set when the target is met in the first passage.             *)
MetInFirst_ZeroYields(N0, passage1_yield) ==
    [found |-> TRUE, N0 |-> N0, passage1_yield |-> passage1_yield,
     flasks_p2 |-> 0, passage2_yield |-> 0,
     flasks_p3 |-> 0, passage3_yield |-> 0]
MetInFirst(N0, passage1_yield) ==
    [found |-> TRUE, N0 |-> N0, passage1_yield |-> passage1_yield,
     flasks_p2 |-> 0, passage2_yield |-> passage1_yield,
     flasks_p3 |-> 0, passage3_yield |-> passage1_yield]

(* One iteration of the loop `for N0 in range(1, 201)': the locals after   *)
(* the body, with found = TRUE where the body breaks.                      *)
LoopBody(N0, total_cells, flask_data) ==
    LET passage1_yield == N0 * flask_data.max_cells
        flasks_p2 == ReseedFlasks(passage1_yield, flask_data.initial_cells)
        passage2_yield == flasks_p2 * flask_data.max_cells
        flasks_p3 == ReseedFlasks(passage2_yield, flask_data.initial_cells)
        passage3_yield == flasks_p3 * flask_data.max_cells
    IN  IF TargetMet(passage1_yield, total_cells)
        THEN MetInFirst(N0, passage1_yield)
        ELSE IF TargetMet(passage2_yield, total_cells)
        THEN [found |-> TRUE, N0 |-> N0, passage1_yield |-> passage1_yield,
              flasks_p2 |-> flasks_p2, passage2_yield |-> passage2_yield,
              flasks_p3 |-> 0, passage3_yield |-> passage2_yield]
        ELSE [found |-> TargetMet(passage3_yield, total_cells), N0 |-> N0,
              passage1_yield |-> passage1_yield,
              flasks_p2 |-> flasks_p2, passage2_yield |-> passage2_yield,
              flasks_p3 |-> flasks_p3, passage3_yield |-> passage3_yield]

(* The loop stops after the body for N0 when the body breaks or the range  *)
(* is exhausted.                                                           *)
LoopEnds(N0, total_cells, flask_data) ==
    LoopBody(N0, total_cells, flask_data).found \/ N0 >= LastCandidate

(* The loop from candidate N0 on: the locals when it is left.  Four        *)
(* iterations are written out per unfolding to keep the evaluation of the  *)
(* 200 iterations shallow.                                                 *)
RECURSIVE SearchFrom(_, _, _)
SearchFrom(N0, total_cells, flask_data) ==
    IF LoopEnds(N0, total_cells, flask_data)
    THEN LoopBody(N0, total_cells, flask_data)
    ELSE IF LoopEnds(N0 + 1, total_cells, flask_data)
    THEN LoopBody(N0 + 1, total_cells, flask_data)
    ELSE IF LoopEnds(N0 + 2, total_cells, flask_data)
    THEN LoopBody(N0 + 2, total_cells, flask_data)
    ELSE IF LoopEnds(N0 + 3, total_cells, flask_data)
    THEN LoopBody(N0 + 3, total_cells, flask_data)
    ELSE SearchFrom(N0 + 4, total_cells, flask_data)

(* `if not found:' the plan of the maximum candidate.                      *)
Fallback(it, flask_data) ==
    LET initial_flasks == LastCandidate
        flasks_p2 == ReseedFlasks(initial_flasks * flask_data.max_cells,
                                  flask_data.initial_cells)
        flasks_p3 == ReseedFlasks(flasks_p2 * flask_data.max_cells,
                                  flask_data.initial_cells)
    IN  [it EXCEPT !.N0 = initial_flasks, !.flasks_p2 = flasks_p2,
                   !.flasks_p3 = flasks_p3,
                   !.passage3_yield = flasks_p3 * flask_data.max_cells]

Plan(total_cells, flask_data) ==
    LET it == SearchFrom(FirstCandidate, total_cells, flask_data)
    IN  IF it.found THEN it ELSE Fallback(it, flask_data)

PassagesUsed_Strict(plan, total_cells) ==
    IF plan.passage1_yield > total_cells THEN 1
    ELSE IF plan.passage2_yield > total_cells THEN 2
    ELSE 3
PassagesUsed(plan, total_cells) ==
    IF plan.passage1_yield >= total_cells THEN 1
    ELSE IF plan.passage2_yield >= total_cells THEN 2
    ELSE 3

TotalDays(passages_used) ==
    MIN_PASSAGE1_DAYS + (passages_used - 1) * ADDITIONAL_PASSAGE_DAYS

TotalMediaChanges_OffByOne(passages_used) ==
    FIRST_PASSAGE_MEDIA_CHANGES + passages_used * LATER_PASSAGE_MEDIA_CHANGES
TotalMediaChanges(passages_used) ==
    FIRST_PASSAGE_MEDIA_CHANGES + (passages_used - 1) * LATER_PASSAGE_MEDIA_CHANGES

PlasmaVolume_Floor(initial_flasks, media, priming) ==
    IF priming
    THEN Floor(initial_flasks * media * PLASMA_PERCENTAGE_NUM, PLASMA_PERCENTAGE_DEN)
    ELSE 0
PlasmaVolume(initial_flasks, media, priming) ==
    IF priming
    THEN Ceil(initial_flasks * media * PLASMA_PERCENTAGE_NUM, PLASMA_PERCENTAGE_DEN)
    ELSE 0

(* The dict returned by calculate_msc_therapy.                             *)
ReturnValue(plan, total_cells, sep_yield, flask_data, priming) ==
    LET passages_used == PassagesUsed(plan, total_cells)
    IN  [pbsc_ml |-> PbscMl(total_cells, sep_yield),
         initial_flasks |-> plan.N0,
         passages |-> passages_used,
         total_days |-> TotalDays(passages_used),
         total_media |-> plan.N0 * flask_data.media * TotalMediaChanges(passages_used),
         initial_cells |-> flask_data.initial_cells,
         target_cells |-> total_cells,
         passage1_yield |-> plan.passage1_yield,
         flasks_p2 |-> plan.flasks_p2,
         passage2_yield |-> IF passages_used >= 2 THEN plan.passage2_yield
                            ELSE plan.passage1_yield,
         flasks_p3 |-> plan.flasks_p3,
         passage3_yield |-> IF passages_used >= 3 THEN plan.passage3_yield
                            ELSE plan.passage2_yield,
         plasma_volume |-> PlasmaVolume(plan.N0, flask_data.media, priming),
         passages_used |-> passages_used]

NoResults ==
    [pbsc_ml |-> 0, initial_flasks |-> 0, passages |-> 0, total_days |-> 0,
     total_media |-> 0, initial_cells |-> 0, target_cells |-> 0,
     passage1_yield |-> 0, flasks_p2 |-> 0, passage2_yield |-> 0,
     flasks_p3 |-> 0, passage3_yield |-> 0, plasma_volume |-> 0,
     passages_used |-> 0]

----------------------------------------------------------------------------
(* plot_growth_curve.  A segment is start * exp(rate * (t - t0)) with      *)
(* rate = log(factor) / days: its first sample is start, its last sample   *)
(* is start * factor, and the samples in between lie between the two.      *)
(* start, end and the samples are in single cells.                         *)
Segment(start, end, days) ==
    LET factor_is_one == ~(start > 0) \/ end = start
        rate_is_zero == factor_is_one \/ ~(days > 0)
    IN  [start |-> start, end |-> end,
         first |-> start,
         last |-> IF rate_is_zero THEN start ELSE end]

GrowthCurve(r) ==
    LET initial_cells == r.initial_cells * CELLS_PER_UNIT
        passage1_yield == r.passage1_yield * CELLS_PER_UNIT
        passage2_yield == r.passage2_yield * CELLS_PER_UNIT
        passage3_yield == r.passage3_yield * CELLS_PER_UNIT
        start1 == IF initial_cells > 0 THEN r.initial_flasks * initial_cells ELSE 1
        end1 == IF passage1_yield > 0 THEN passage1_yield ELSE start1
        start2 == IF initial_cells > 0 THEN r.flasks_p2 * initial_cells ELSE end1
        end2 == IF passage2_yield > 0 THEN passage2_yield ELSE start2
        start3 == IF initial_cells > 0 THEN r.flasks_p3 * initial_cells ELSE end2
        end3 == IF passage3_yield > 0 THEN passage3_yield ELSE start3
    IN  <<Segment(start1, end1, MIN_PASSAGE1_DAYS),
          Segment(start2, end2, ADDITIONAL_PASSAGE_DAYS),
          Segment(start3, end3, ADDITIONAL_PASSAGE_DAYS)>>

----------------------------------------------------------------------------
(* State machine: main() calls calculate_msc_therapy, then                 *)
(* plot_growth_curve on its result.                                        *)
Init ==
    /\ pc = "ready"
    /\ weight = 0
    /\ desired_dose = 0
    /\ separator = "Default"
    /\ flask_type = "Default"
    /\ plasma_priming = FALSE
    /\ found = FALSE
    /\ results = NoResults
    /\ curve = <<>>

calculate_msc_therapy ==
    /\ pc = "ready"
    /\ \E w \in MinWeightInput..MaxWeightInput, d \in MinDoseInput..MaxDoseInput,
          sep \in SeparatorKeys, ft \in FlaskKeys, priming \in BOOLEAN :
          LET sep_yield == safe_get(SEPARATOR_YIELD, sep)
              flask_data == safe_get(FLASK_TYPES, ft)
              total_cells == TotalCells(w, d)
              plan == Plan(total_cells, flask_data)
          IN  /\ weight' = w
              /\ desired_dose' = d
              /\ separator' = sep
              /\ flask_type' = ft
              /\ plasma_priming' = priming
              /\ found' = plan.found
              /\ results' = ReturnValue(plan, total_cells, sep_yield, flask_data, priming)
    /\ pc' = "calculated"
    /\ UNCHANGED curve

plot_growth_curve ==
    /\ pc = "calculated"
    /\ curve' = GrowthCurve(results)
    /\ pc' = "plotted"
    /\ UNCHANGED <<weight, desired_dose, separator, flask_type, plasma_priming,
                   found, results>>

Next == calculate_msc_therapy \/ plot_growth_curve

Spec == Init /\ [][Next]_vars

----------------------------------------------------------------------------
(* Vocabulary of the properties.                                           *)
Returned == pc # "ready"

FlaskData == safe_get(FLASK_TYPES, flask_type)

(* The vessel count and the output of passage i (1, 2, 3) of the plan      *)
(* that starts with n vessels, by the re-seeding rule.                     *)
RECURSIVE SimFlasks(_, _)
SimFlasks(n, i) ==
    IF i = 1 THEN n
    ELSE Ceil(SimFlasks(n, i - 1) * FlaskData.max_cells * SAFETY_FACTOR_NUM,
              FlaskData.initial_cells * SAFETY_FACTOR_DEN)

SimOutput(n, i) == SimFlasks(n, i) * FlaskData.max_cells

(* The plan as the result reports it.                                      *)
PlanFlasks(i) ==
    CASE i = 1 -> results.initial_flasks
      [] i = 2 -> results.flasks_p2
      [] OTHER -> results.flasks_p3

ReportedYield(i) ==
    CASE i = 1 -> results.passage1_yield
      [] i = 2 -> results.passage2_yield
      [] OTHER -> results.passage3_yield

Indicator(b) == IF b THEN 1 ELSE 0

----------------------------------------------------------------------------
(* C1: when the search succeeds with initial_flasks = N0, no smaller       *)
(* initial vessel count reaches the target in any of the MAX_PASSAGES      *)
(* passages simulated with the re-seeding rule.                            *)
C1_Minimality ==
    (Returned /\ found) =>
        \A n \in 1..(results.initial_flasks - 1) : \A i \in 1..MAX_PASSAGES :
            SimOutput(n, i) < results.target_cells

C1_Witness ==
    /\ Returned /\ found
    /\ results.initial_flasks >= 2
    /\ results.passages_used = 3

(* C2: passages_used is the first passage of the returned plan whose       *)
(* output is >= the target (equality counts as met), it never exceeds      *)
(* MAX_PASSAGES, and total_days is 14 plus 7 per additional passage.       *)
C2_SmallestPassage ==
    (Returned /\ found) =>
        LET used == results.passages_used
        IN  /\ used \in 1..MAX_PASSAGES
            /\ SimOutput(results.initial_flasks, used) >= results.target_cells
            /\ \A i \in 1..(used - 1) :
                   SimOutput(results.initial_flasks, i) < results.target_cells
            /\ results.total_days =
                   MIN_PASSAGE1_DAYS + (used - 1) * ADDITIONAL_PASSAGE_DAYS

C2_Witness ==
    /\ Returned /\ found
    /\ results.passages_used = 1
    /\ results.passage1_yield = results.target_cells

(* C3, as stated: weight 70, dose 1.0 and the vessel with medium 15 give   *)
(* N0 = 9, one passage and the duration of the first passage.  The only    *)
(* vessel with medium 15 that FLASK_TYPES holds is T75 / Default (seeding  *)
(* 3.75e6, confluent 15e6), which is also what the key "standard-medium"   *)
(* resolves to.                                                            *)
C3_Scenario ==
    /\ Returned
    /\ ClampWeight(weight) = 70
    /\ ClampDose(desired_dose) = 20
    /\ FlaskData.media = 15

C4_Original ==
    Returned =>
        results.total_media =
            results.initial_flasks * FlaskData.media * FIRST_PASSAGE_MEDIA_CHANGES
            + Indicator(results.passages_used >= 2)
                * results.flasks_p2 * FlaskData.media * LATER_PASSAGE_MEDIA_CHANGES
            + Indicator(results.passages_used >= 3)
                * results.flasks_p3 * FlaskData.media * LATER_PASSAGE_MEDIA_CHANGES

(* C4, amended: every passage used is charged with the INITIAL vessel      *)
(* count: total_media = initial_flasks * media * 4 for the first passage   *)
(* plus initial_flasks * media * 2 for each later passage used.            *)
C4_Amended ==
    Returned =>
        results.total_media =
            results.initial_flasks * FlaskData.media * FIRST_PASSAGE_MEDIA_CHANGES
            + Indicator(results.passages_used >= 2)
                * results.initial_flasks * FlaskData.media * LATER_PASSAGE_MEDIA_CHANGES
            + Indicator(results.passages_used >= 3)
                * results.initial_flasks * FlaskData.media * LATER_PASSAGE_MEDIA_CHANGES

C4_Witness ==
    /\ Returned
    /\ results.passages_used = 3
    /\ results.flasks_p2 > results.initial_flasks
    /\ results.flasks_p3 > results.flasks_p2

(* C6: in the growth curve, a passage whose input cell count is <= 0 is    *)
(* drawn flat at that passage's reported yield (the samples are in cells). *)
C6_DegenerateSegment ==
    pc = "plotted" =>
        \A i \in 1..MAX_PASSAGES :
            PlanFlasks(i) * results.initial_cells <= 0 =>
                /\ curve[i].first = ReportedYield(i) * CELLS_PER_UNIT
                /\ curve[i].last = ReportedYield(i) * CELLS_PER_UNIT

(* C7, as stated: with priming, plasma_volume is exactly 0.15 *            *)
(* initial_flasks * media; without, it is 0.                               *)
C7_Original ==
    Returned =>
        IF plasma_priming
        THEN results.plasma_volume * PLASMA_PERCENTAGE_DEN =
                 PLASMA_PERCENTAGE_NUM * results.initial_flasks * FlaskData.media
        ELSE results.plasma_volume = 0

(* C7, amended: with priming, plasma_volume is 0.15 * initial_flasks *     *)
(* media rounded up to the next whole number; without, it is 0.            *)
C7_Amended ==
    Returned =>
        LET exact20 == PLASMA_PERCENTAGE_NUM * results.initial_flasks * FlaskData.media
        IN  IF plasma_priming
            THEN /\ results.plasma_volume * PLASMA_PERCENTAGE_DEN >= exact20
                 /\ (results.plasma_volume - 1) * PLASMA_PERCENTAGE_DEN < exact20
            ELSE results.plasma_volume = 0

C7_Witness ==
    /\ Returned
    /\ plasma_priming
    /\ (PLASMA_PERCENTAGE_NUM * results.initial_flasks * FlaskData.media)
           % PLASMA_PERCENTAGE_DEN # 0

(* C9: in every returned plan, each passage used has at least one vessel,  *)
(* its output is at least its input, outputs do not decrease from one      *)
(* passage to the next, and the reported yields are ordered.               *)
C9_WellFormed ==
    Returned =>
        /\ \A i \in 1..results.passages_used :
               /\ PlanFlasks(i) \in Nat /\ PlanFlasks(i) >= 1
               /\ PlanFlasks(i) * FlaskData.max_cells
                      >= PlanFlasks(i) * FlaskData.initial_cells
               /\ i > 1 => PlanFlasks(i) * FlaskData.max_cells
                               >= PlanFlasks(i - 1) * FlaskData.max_cells
        /\ results.passage1_yield <= results.passage2_yield
        /\ results.passage2_yield <= results.passage3_yield

C9_Witness ==
    /\ Returned
    /\ results.passages_used = 3
    /\ results.passage1_yield < results.passage2_yield
    /\ results.passage2_yield < results.passage3_yield

(* C10: with the shipped catalog the search always succeeds inside 1..200  *)
(* and the yield of the last passage used is >= the target.                *)
C10_AlwaysFound ==
    Returned =>
        /\ found
        /\ ReportedYield(results.passages_used) >= results.target_cells

C10_Witness ==
    /\ Returned /\ found
    /\ flask_type \notin DOMAIN FLASK_TYPES
    /\ weight > MAX_WEIGHT
    /\ desired_dose > MAX_DOSE
    /\ results.target_cells = MAX_WEIGHT * MAX_DOSE * CELLS_PER_DOSE_UNIT

=============================================================================
